---------------------------- MODULE Spec2Model ----------------------------
(***************************************************************************)
(* Aether environment-variable manager: the store controller of App.tsx    *)
(* (projects, profiles, variables, selection, persistence) and the .env    *)
(* import/export path of EnvironmentCanvas (parse, diff, confirm, merge).  *)
(*                                                                         *)
(* Representation.  A JavaScript string that the code parses or builds     *)
(* character by character (keys, values, file contents) is a sequence of   *)
(* one-character strings; <<>> is the empty string.  Names of projects and *)
(* profiles are never inspected and stay TLA+ strings.  A generated id is  *)
(* the tuple of the parts of its template string:                          *)
(*    `var-${Date.now()}`                  <<"var", t, 0>>                  *)
(*    `var-${Date.now()}-${Math.random()}` <<"var", t, r>>  with r >= 1     *)
(*    `prof-${Date.now()}-dev`             <<"prof", t, "dev">>             *)
(*    `prof-${Date.now()}`                 <<"prof", t, "">>                *)
(*    `proj-${Date.now()}`                 <<"proj", t>>                    *)
(* and the literal ids of the seed data follow the same shape (var-1 is    *)
(* <<"var", 1, 0>>, prof-1-dev is <<"prof", 1, "dev">>).  Date.now() is the *)
(* variable clock, which may or may not advance between two operations;    *)
(* Math.random() is a draw that never repeats (the counter rnd).           *)
(***************************************************************************)
EXTENDS Integers, Sequences, FiniteSets, TLC

VARIABLES
    projects,           \* App state: Project[]
    selectedProjectId,  \* App state: string | null
    focusedVarId,       \* App state: string | null
    storage,            \* localStorage item 'aether-projects'
    quota,              \* environment: TRUE when localStorage.setItem throws
    clock,              \* environment: the value Date.now() returns
    rnd,                \* environment: number of Math.random() draws so far
    crashed,            \* TRUE once a state updater has thrown
    importDiff,         \* EnvironmentCanvas state: ImportDiff | null
    reads,              \* FileReaders of the mounted canvas still reading
    importedVars,       \* the pairs parsed by the last reader.onload
    download,           \* content of the last exported file, or Null
    lastImport,         \* arguments of handleImportVariables when it was the
                        \* last store operation, else Null
    applied,            \* how many times in succession it ran with them
    mounted,            \* TRUE once the effects of the first render ran
    steps               \* operations performed (specification Spec)

vars == <<projects, selectedProjectId, focusedVarId, storage, quota, clock, rnd,
          crashed, importDiff, reads, importedVars, download, lastImport,
          applied, mounted, steps>>

----------------------------------------------------------------------------
(* Bounds of the model.                                                    *)

MaxProjects == 2      \* projects in the store
MaxProfiles == 3      \* profiles of one project
MaxVars     == 3      \* variables of one profile
MaxTicks    == 1      \* advances of the clock
MaxSteps    == 3      \* operations of one session (specification Spec)
MaxReads    == 2      \* file reads in flight
MaxTextLen  == 5      \* characters of an arbitrary imported file
MaxValLen   == 2      \* characters of an exported value
MaxList     == 2      \* variables / pairs of a drawn profile or file
MaxDraws    == 6      \* Math.random() draws of one session
MaxImports  == 2      \* successive identical handleImportVariables calls

----------------------------------------------------------------------------
(* JavaScript values and string primitives.                                *)

Null == <<>>

\* The first clock reading of a session; the literal seed ids use 1..9.
T0 == 10

\* Characters String.prototype.trim removes that occur in the model.
WhiteSpace == {" ", "\t"}

Min(S) == CHOOSE x \in S : \A y \in S : x <= y
Max(S) == CHOOSE x \in S : \A y \in S : y <= x

\* Array.prototype.map, filter, some on a sequence.
SeqMap(F(_), s) == [i \in 1..Len(s) |-> F(s[i])]
SeqFilter(s, T(_)) == SelectSeq(s, T)
Range(s) == {s[i] : i \in 1..Len(s)}

RECURSIVE Flatten(_)
Flatten(ss) == IF ss = <<>> THEN <<>> ELSE Head(ss) \o Flatten(Tail(ss))

\* All sequences over S of length at most n.
SeqsUpTo(S, n) == UNION {[1..k -> S] : k \in 0..n}

\* String.prototype.trim
Trim(s) ==
    LET keep == {i \in 1..Len(s) : s[i] \notin WhiteSpace}
    IN  IF keep = {} THEN <<>> ELSE SubSeq(s, Min(keep), Max(keep))

\* String.prototype.split(sep) for a one-character separator: always at
\* least one part; "".split(sep) is [""].
RECURSIVE Split(_, _)
Split(s, sep) ==
    LET at == {i \in 1..Len(s) : s[i] = sep}
    IN  IF at = {} THEN <<s>>
        ELSE <<SubSeq(s, 1, Min(at) - 1)>>
                 \o Split(SubSeq(s, Min(at) + 1, Len(s)), sep)

\* Array.prototype.join(sep): [].join(sep) is "".
RECURSIVE Join(_, _)
Join(parts, sep) ==
    IF parts = <<>> THEN <<>>
    ELSE IF Len(parts) = 1 THEN parts[1]
    ELSE parts[1] \o <<sep>> \o Join(Tail(parts), sep)

\* String.prototype.startsWith for a one-character prefix.
StartsWith(s, c) == Len(s) > 0 /\ s[1] = c

----------------------------------------------------------------------------
(* Env-text codec: handleExport and the parse half of reader.onload.       *)

\* handleExport: profile.variables.map(v => `${v.key}=${v.value}`).join('\n')
Serialize(variables) ==
    Join(SeqMap(LAMBDA v : v.key \o <<"=">> \o v.value, variables), "\n")

\* Mutant: comment lines are parsed like any other line.
ParseLine_KeepComments(line) ==
    LET trimmedLine == Trim(line)
        parts       == Split(trimmedLine, "=")
    IN  IF trimmedLine # <<>> /\ Head(parts) # <<>>
        THEN <<[key |-> Trim(Head(parts)), value |-> Trim(Join(Tail(parts), "="))]>>
        ELSE <<>>

\* Mutant: the value is the text between the first and the second '='.
ParseLine_FirstPartOnly(line) ==
    LET trimmedLine == Trim(line)
        parts       == Split(trimmedLine, "=")
    IN  IF trimmedLine # <<>> /\ ~StartsWith(trimmedLine, "#") /\ Head(parts) # <<>>
        THEN <<[key |-> Trim(Head(parts)),
                value |-> IF Len(parts) > 1 THEN Trim(parts[2]) ELSE <<>>]>>
        ELSE <<>>

\* The body of lines.forEach in reader.onload: the pairs one line pushes.
ParseLine(line) ==
    LET trimmedLine == Trim(line)
        parts       == Split(trimmedLine, "=")
        key         == Head(parts)
        valueParts  == Tail(parts)
    IN  IF trimmedLine # <<>> /\ ~StartsWith(trimmedLine, "#")
        THEN IF key # <<>>
             THEN <<[key |-> Trim(key), value |-> Trim(Join(valueParts, "="))]>>
             ELSE <<>>
        ELSE <<>>

\* reader.onload, lines 115-126: content.split('\n') and the forEach.
Parse(content) == Flatten(SeqMap(ParseLine, Split(content, "\n")))

----------------------------------------------------------------------------
(* JavaScript Map keyed by string, as the sequence of its entries in       *)
(* insertion order: set() on a present key keeps the entry's position.     *)

MapHas(m, k) == \E i \in 1..Len(m) : m[i].k = k
MapGet(m, k) == m[CHOOSE i \in 1..Len(m) : m[i].k = k].v
MapSet(m, k, v) ==
    IF MapHas(m, k)
    THEN [i \in 1..Len(m) |-> IF m[i].k = k THEN [k |-> k, v |-> v] ELSE m[i]]
    ELSE Append(m, [k |-> k, v |-> v])

\* new Map(entries)
RECURSIVE MapFrom(_, _)
MapFrom(m, entries) ==
    IF entries = <<>> THEN m
    ELSE MapFrom(MapSet(m, Head(entries).k, Head(entries).v), Tail(entries))

\* Array.from(map.values())
MapValues(m) == SeqMap(LAMBDA e : e.v, m)

----------------------------------------------------------------------------
(* Import reconciler: the diff half of reader.onload, and the merge of     *)
(* handleImportVariables.                                                  *)

\* reader.onload, lines 128-136.
RECURSIVE DiffLoop(_, _, _)
DiffLoop(existingVars, pairs, diff) ==
    IF pairs = <<>> THEN diff
    ELSE LET v == Head(pairs)
             next ==
                 IF ~MapHas(existingVars, v.key)
                 THEN [diff EXCEPT !.newVars = Append(@, v)]
                 ELSE IF MapGet(existingVars, v.key) # v.value
                 THEN [diff EXCEPT !.updatedVars = Append(@,
                          [key |-> v.key, value |-> v.value,
                           oldValue |-> MapGet(existingVars, v.key)])]
                 ELSE diff
         IN  DiffLoop(existingVars, Tail(pairs), next)

\* Mutant: the diff lists every pair with a known key as updated.
Diff_NoValueCheck(variables, pairs) ==
    [newVars |-> SelectSeq(pairs, LAMBDA p :
                     \A i \in 1..Len(variables) : variables[i].key # p.key),
     updatedVars |->
         SeqMap(LAMBDA p :
                    [key |-> p.key, value |-> p.value,
                     oldValue |-> variables[CHOOSE i \in 1..Len(variables) :
                                               variables[i].key = p.key].value],
                SelectSeq(pairs, LAMBDA p :
                    \E i \in 1..Len(variables) : variables[i].key = p.key))]

Diff(variables, pairs) ==
    LET existingVars ==
            MapFrom(<<>>, SeqMap(LAMBDA v : [k |-> v.key, v |-> v.value], variables))
    IN  DiffLoop(existingVars, pairs, [newVars |-> <<>>, updatedVars |-> <<>>])

\* confirmImport, line 145: [...importDiff.newVars, ...importDiff.updatedVars]
AllVars(diff) ==
    SeqMap(LAMBDA v : [key |-> v.key, value |-> v.value],
           diff.newVars \o diff.updatedVars)

\* handleImportVariables, lines 248-264: importedVars.forEach over the map.
\* now is Date.now(), r the number of Math.random() draws made before.
RECURSIVE MergeLoop(_, _, _, _)
MergeLoop(existingVarsMap, pairs, now, r) ==
    IF pairs = <<>> THEN existingVarsMap
    ELSE LET importedVar == Head(pairs)
         IN  IF MapHas(existingVarsMap, importedVar.key)
             THEN LET existing == MapGet(existingVarsMap, importedVar.key)
                  IN  MergeLoop(
                          MapSet(existingVarsMap, importedVar.key,
                                 [existing EXCEPT !.value = importedVar.value]),
                          Tail(pairs), now, r)
             ELSE LET newVar == [id |-> <<"var", now, r + 1>>,
                                 key |-> importedVar.key,
                                 value |-> importedVar.value,
                                 isSecret |-> FALSE,
                                 type |-> "TEXT"]
                  IN  MergeLoop(MapSet(existingVarsMap, importedVar.key, newVar),
                                Tail(pairs), now, r + 1)

\* Mutant: the merge appends a variable for every pair.
MergeVariables_AppendAll(variables, pairs, now, r) ==
    variables \o [i \in 1..Len(pairs) |->
                     [id |-> <<"var", now, r + i>>, key |-> pairs[i].key,
                      value |-> pairs[i].value, isSecret |-> FALSE, type |-> "TEXT"]]

\* handleImportVariables, lines 246-269, on the variables of one profile.
MergeVariables(variables, pairs, now, r) ==
    LET existingVarsMap ==
            MapFrom(<<>>, SeqMap(LAMBDA v : [k |-> v.key, v |-> v], variables))
    IN  MapValues(MergeLoop(existingVarsMap, pairs, now, r))

\* The variables array held before the merge, as it reads after the merge:
\* line 252 assigns importedVar.value to the object the Map holds for a known
\* key, which is the object of the last variable carrying the key and is
\* shared with the array the profile held before.
WrittenInPlace(variables, pairs, now, r) ==
    LET existingVarsMap ==
            MergeLoop(MapFrom(<<>>, SeqMap(LAMBDA v : [k |-> v.key, v |-> v],
                                           variables)),
                      pairs, now, r)
    IN  [i \in 1..Len(variables) |->
            IF \A j \in (i + 1)..Len(variables) : variables[j].key # variables[i].key
            THEN MapGet(existingVarsMap, variables[i].key)
            ELSE variables[i]]

\* The Math.random() draws of one merge: one per pair that adds a variable.
MergeDraws(variables, pairs) ==
    Cardinality({p.key : p \in Range(pairs)} \ {v.key : v \in Range(variables)})

----------------------------------------------------------------------------
(* The seed dataset INITIAL_PROJECTS.                                      *)

SeedVar1 ==
    [id |-> <<"var", 1, 0>>, isSecret |-> FALSE, type |-> "URL",
     key |-> <<"V", "I", "T", "E", "_", "A", "P", "I", "_", "U", "R", "L">>,
     value |-> <<"h", "t", "t", "p", ":", "/", "/", "l", "o", "c", "a", "l", "h", "o", "s", "t", ":", "3", "0", "0", "0", "/", "a", "p", "i">>]

SeedVar2 ==
    [id |-> <<"var", 2, 0>>, isSecret |-> TRUE, type |-> "GENERIC_SECRET",
     key |-> <<"V", "I", "T", "E", "_", "S", "T", "R", "I", "P", "E", "_", "P", "U", "B", "L", "I", "C", "_", "K", "E", "Y">>,
     value |-> <<"p", "k", "_", "t", "e", "s", "t", "_", "5", "1", "H", ".", ".", ".", "a", "b", "c">>]

SeedVar3 ==
    [id |-> <<"var", 3, 0>>, isSecret |-> FALSE, type |-> "EMAIL",
     key |-> <<"V", "I", "T", "E", "_", "A", "D", "M", "I", "N", "_", "E", "M", "A", "I", "L">>,
     value |-> <<"a", "d", "m", "i", "n", "@", "a", "e", "t", "h", "e", "r", ".", "a", "p", "p">>]

SeedVar4 ==
    [id |-> <<"var", 4, 0>>, isSecret |-> FALSE, type |-> "URL",
     key |-> <<"V", "I", "T", "E", "_", "A", "P", "I", "_", "U", "R", "L">>,
     value |-> <<"h", "t", "t", "p", "s", ":", "/", "/", "a", "e", "t", "h", "e", "r", ".", "a", "p", "p", "/", "a", "p", "i">>]

SeedVar5 ==
    [id |-> <<"var", 5, 0>>, isSecret |-> TRUE, type |-> "GENERIC_SECRET",
     key |-> <<"V", "I", "T", "E", "_", "S", "T", "R", "I", "P", "E", "_", "P", "U", "B", "L", "I", "C", "_", "K", "E", "Y">>,
     value |-> <<"p", "k", "_", "l", "i", "v", "e", "_", "5", "1", "H", ".", ".", ".", "x", "y", "z">>]

SeedVar6 ==
    [id |-> <<"var", 6, 0>>, isSecret |-> TRUE, type |-> "URL",
     key |-> <<"D", "A", "T", "A", "B", "A", "S", "E", "_", "U", "R", "L">>,
     value |-> <<"p", "o", "s", "t", "g", "r", "e", "s", "q", "l", ":", "/", "/", "u", "s", "e", "r", ":", "p", "a", "s", "s", "@", "l", "o", "c", "a", "l", "h", "o", "s", "t", ":", "5", "4", "3", "2", "/", "z", "e", "p", "h", "y", "r">>]

SeedVar7 ==
    [id |-> <<"var", 7, 0>>, isSecret |-> TRUE, type |-> "JWT",
     key |-> <<"J", "W", "T", "_", "S", "E", "C", "R", "E", "T">>,
     value |-> <<"e", "y", "J", "h", "b", "G", "c", "i", "O", "i", "J", "I", "U", "z", "I", "1", "N", "i", "I", "s", "I", "n", "R", "5", "c", "C", "I", "6", "I", "k", "p", "X", "V", "C", "J", "9", ".", "e", "y", "J", "z", "d", "W", "I", "i", "O", "i", "I", "x", "M", "j", "M", "0", "N", "T", "Y", "3", "O", "D", "k", "w", "I", "i", "w", "i", "b", "m", "F", "t", "Z", "S", "I", "6", "I", "k", "p", "v", "a", "G", "4", "g", "R", "G", "9", "l", "I", "i", "w", "i", "a", "W", "F", "0", "I", "j", "o", "x", "N", "T", "E", "2", "M", "j", "M", "5", "M", "D", "I", "y", "f", "Q", ".", "S", "f", "l", "K", "x", "w", "R", "J", "S", "M", "e", "K", "K", "F", "2", "Q", "T", "4", "f", "w", "p", "M", "e", "J", "f", "3", "6", "P", "O", "k", "6", "y", "J", "V", "_", "a", "d", "Q", "s", "s", "w", "5", "c">>]

SeedVar8 ==
    [id |-> <<"var", 8, 0>>, isSecret |-> TRUE, type |-> "AWS_KEY",
     key |-> <<"A", "W", "S", "_", "A", "C", "C", "E", "S", "S", "_", "K", "E", "Y", "_", "I", "D">>,
     value |-> <<"A", "K", "I", "A", "I", "O", "S", "F", "O", "D", "N", "N", "7", "E", "X", "A", "M", "P", "L", "E">>]

SeedVar9 ==
    [id |-> <<"var", 9, 0>>, isSecret |-> TRUE, type |-> "URL",
     key |-> <<"D", "A", "T", "A", "B", "A", "S", "E", "_", "U", "R", "L">>,
     value |-> <<"p", "o", "s", "t", "g", "r", "e", "s", "q", "l", ":", "/", "/", "u", "s", "e", "r", ":", "p", "a", "s", "s", "@", "s", "t", "a", "g", "i", "n", "g", "-", "d", "b", ":", "5", "4", "3", "2", "/", "z", "e", "p", "h", "y", "r">>]

Profile(id, name, variables) == [id |-> id, name |-> name, variables |-> variables]

Project(id, name, activeProfileId, profiles) ==
    [id |-> id, name |-> name, activeProfileId |-> activeProfileId,
     profiles |-> profiles]

INITIAL_PROJECTS ==
    << Project(<<"proj", 1>>, "Aether Frontend", <<"prof", 1, "dev">>,
           << Profile(<<"prof", 1, "dev">>, "development",
                      <<SeedVar1, SeedVar2, SeedVar3>>),
              Profile(<<"prof", 1, "prod">>, "production",
                      <<SeedVar4, SeedVar5>>) >>),
       Project(<<"proj", 2>>, "Zephyr API", <<"prof", 2, "dev">>,
           << Profile(<<"prof", 2, "dev">>, "development",
                      <<SeedVar6, SeedVar7, SeedVar8>>),
              Profile(<<"prof", 2, "staging">>, "staging",
                      <<SeedVar9>>) >>) >>

----------------------------------------------------------------------------
(* Persistence: the localStorage item and the startup load.                *)

\* The item is absent, a string JSON.parse rejects, or the JSON text of a
\* value; JSON text is kept as the value it denotes, tagged.
Absent    == [kind |-> "absent", val |-> <<>>]
Malformed == [kind |-> "malformed", val |-> <<>>]
Stringify(value) == [kind |-> "json", val |-> value]

\* Mutant: an empty saved array is loaded as it is.
initialProjects_KeepEmpty(savedData) ==
    IF savedData.kind = "json" THEN savedData.val ELSE INITIAL_PROJECTS

\* initialProjects: the saved array when it parses to a non-empty array,
\* INITIAL_PROJECTS otherwise (no item, empty array, or a parse error caught).
initialProjects(savedData) ==
    IF savedData.kind = "json" /\ Len(savedData.val) > 0
    THEN savedData.val
    ELSE INITIAL_PROJECTS

\* useState initial value: initialProjects[0]?.id || null
FirstId(ps) == IF Len(ps) > 0 THEN ps[1].id ELSE Null

\* Mutant: the effect writes the collection it was created with.
Persist_Stale(ps) == IF quota THEN storage ELSE Stringify(projects)

\* The persistence effect: setItem, its exception caught and logged.
Persist(ps) == IF quota THEN storage ELSE Stringify(ps)

----------------------------------------------------------------------------
(* Derived render values of App.                                           *)

\* Array.prototype.find on a sequence: the first match, or Null.
Find(s, T(_)) ==
    LET hit == {i \in 1..Len(s) : T(s[i])}
    IN  IF hit = {} THEN Null ELSE s[Min(hit)]

selectedProject(ps, sel) == Find(ps, LAMBDA p : p.id = sel)

activeProfile(ps, sel) ==
    LET sp == selectedProject(ps, sel)
    IN  IF sp = Null THEN Null
        ELSE Find(sp.profiles, LAMBDA prof : prof.id = sp.activeProfileId)

\* The key of the mounted EnvironmentCanvas, Null while the placeholder shows.
CanvasKey(ps, sel) ==
    IF activeProfile(ps, sel) = Null THEN Null ELSE activeProfile(ps, sel).id

\* Mutant: the selection effect is missing.
Heal_None(ps, sel) == sel

\* The selection effect: an id that names no project becomes the first id.
Heal(ps, sel) ==
    IF \E i \in 1..Len(ps) : ps[i].id = sel THEN sel ELSE FirstId(ps)

----------------------------------------------------------------------------
(* The state updaters of App, as functions of the previous projects.       *)

handleProfileChange(prevProjects, projectId, profileId) ==
    SeqMap(LAMBDA p : IF p.id = projectId
                      THEN [p EXCEPT !.activeProfileId = profileId]
                      ELSE p,
           prevProjects)

\* { ...v, ...updatedVar }
Spread(v, updatedVar) ==
    [f \in DOMAIN v |-> IF f \in DOMAIN updatedVar THEN updatedVar[f] ELSE v[f]]

\* The skeleton shared by the variable handlers: the profiles named profileId
\* of the projects named sel get their variables replaced by F(variables).
OnVariables(prevProjects, sel, profileId, F(_)) ==
    SeqMap(LAMBDA p :
               IF p.id # sel THEN p
               ELSE [p EXCEPT !.profiles =
                        SeqMap(LAMBDA prof :
                                   IF prof.id # profileId THEN prof
                                   ELSE [prof EXCEPT !.variables = F(@)],
                               p.profiles)],
           prevProjects)

handleVariableChange(prevProjects, sel, profileId, varId, updatedVar) ==
    OnVariables(prevProjects, sel, profileId,
        LAMBDA variables :
            SeqMap(LAMBDA v : IF v.id = varId THEN Spread(v, updatedVar) ELSE v,
                   variables))

handleAddVariable(prevProjects, sel, profileId, now) ==
    OnVariables(prevProjects, sel, profileId,
        LAMBDA variables :
            Append(variables, [id |-> <<"var", now, 0>>, key |-> <<>>,
                               value |-> <<>>, isSecret |-> FALSE,
                               type |-> "TEXT"]))

handleDeleteVariable(prevProjects, sel, profileId, varId) ==
    OnVariables(prevProjects, sel, profileId,
        LAMBDA variables : SeqFilter(variables, LAMBDA v : v.id # varId))

handleAddProject(prev, projectName, now) ==
    Append(prev, Project(<<"proj", now>>, projectName, <<"prof", now, "dev">>,
                         <<Profile(<<"prof", now, "dev">>, "development", <<>>)>>))

handleRenameProject(prev, projectId, newName) ==
    SeqMap(LAMBDA p : IF p.id = projectId THEN [p EXCEPT !.name = newName] ELSE p,
           prev)

handleDeleteProject(prev, projectId) ==
    SeqFilter(prev, LAMBDA p : p.id # projectId)

\* Mutant: the clone keeps the ids of the variables it copies.
AddProfileTo_SameIds(p, newProfileName, now, r) ==
    LET active == Find(p.profiles, LAMBDA prof : prof.id = p.activeProfileId)
    IN  IF active = Null THEN [p |-> p, r |-> r]
        ELSE [p |-> [p EXCEPT !.profiles =
                        Append(@, Profile(<<"prof", now, "">>, newProfileName,
                                          active.variables)),
                                !.activeProfileId = <<"prof", now, "">>],
              r |-> r + Len(active.variables)]

\* handleAddProfile on one project; r is the number of Math.random() draws
\* made before.  The result carries the number of draws made after.
AddProfileTo(p, newProfileName, now, r) ==
    LET active == Find(p.profiles, LAMBDA prof : prof.id = p.activeProfileId)
    IN  IF active = Null THEN [p |-> p, r |-> r]
        ELSE LET newProfileId == <<"prof", now, "">>
                 newProfile ==
                     Profile(newProfileId, newProfileName,
                             [i \in 1..Len(active.variables) |->
                                 [active.variables[i] EXCEPT
                                     !.id = <<"var", now, r + i>>]])
             IN  [p |-> [p EXCEPT !.profiles = Append(@, newProfile),
                                  !.activeProfileId = newProfileId],
                  r |-> r + Len(active.variables)]

RECURSIVE AddProfileLoop(_, _, _, _, _)
AddProfileLoop(ps, projectId, newProfileName, now, r) ==
    IF ps = <<>> THEN [ps |-> <<>>, r |-> r]
    ELSE LET one  == IF Head(ps).id # projectId
                     THEN [p |-> Head(ps), r |-> r]
                     ELSE AddProfileTo(Head(ps), newProfileName, now, r)
             rest == AddProfileLoop(Tail(ps), projectId, newProfileName, now, one.r)
         IN  [ps |-> <<one.p>> \o rest.ps, r |-> rest.r]

\* The updater of handleAddProfile: [ps |-> the new projects, r |-> draws].
handleAddProfile(prevProjects, projectId, newProfileName, now, r) ==
    AddProfileLoop(prevProjects, projectId, newProfileName, now, r)

handleRenameProfile(prev, projectId, profileId, newName) ==
    SeqMap(LAMBDA p :
               IF p.id # projectId THEN p
               ELSE [p EXCEPT !.profiles =
                        SeqMap(LAMBDA prof : IF prof.id = profileId
                                             THEN [prof EXCEPT !.name = newName]
                                             ELSE prof,
                               p.profiles)],
           prev)

\* Mutant: the delete forgets to reassign activeProfileId.
DeleteProfileFrom_KeepActive(p, profileId) ==
    IF Len(p.profiles) <= 1 THEN p
    ELSE [p EXCEPT !.profiles =
             SeqFilter(p.profiles, LAMBDA prof : prof.id # profileId)]

\* handleDeleteProfile on one project.
DeleteProfileFrom(p, profileId) ==
    IF Len(p.profiles) <= 1 THEN p
    ELSE LET newProfiles == SeqFilter(p.profiles, LAMBDA prof : prof.id # profileId)
             newActiveProfileId ==
                 IF p.activeProfileId = profileId
                 THEN newProfiles[1].id
                 ELSE p.activeProfileId
         IN  [p EXCEPT !.profiles = newProfiles,
                       !.activeProfileId = newActiveProfileId]

\* newProfiles[0].id with newProfiles empty: a TypeError out of the updater.
DeleteProfileThrows(prev, projectId, profileId) ==
    \E i \in 1..Len(prev) :
        /\ prev[i].id = projectId
        /\ Len(prev[i].profiles) > 1
        /\ prev[i].activeProfileId = profileId
        /\ \A j \in 1..Len(prev[i].profiles) : prev[i].profiles[j].id = profileId

handleDeleteProfile(prev, projectId, profileId) ==
    SeqMap(LAMBDA p : IF p.id # projectId THEN p
                      ELSE DeleteProfileFrom(p, profileId),
           prev)

\* handleImportVariables on the profiles of one project.
RECURSIVE ImportProfilesLoop(_, _, _, _, _)
ImportProfilesLoop(profs, profileId, pairs, now, r) ==
    IF profs = <<>> THEN [profs |-> <<>>, r |-> r]
    ELSE LET prof == Head(profs)
             hit  == prof.id = profileId
             one  == IF hit
                     THEN [prof EXCEPT !.variables =
                              MergeVariables(@, pairs, now, r)]
                     ELSE prof
             r1   == IF hit THEN r + MergeDraws(prof.variables, pairs) ELSE r
             rest == ImportProfilesLoop(Tail(profs), profileId, pairs, now, r1)
         IN  [profs |-> <<one>> \o rest.profs, r |-> rest.r]

RECURSIVE ImportLoop(_, _, _, _, _, _)
ImportLoop(ps, sel, profileId, pairs, now, r) ==
    IF ps = <<>> THEN [ps |-> <<>>, r |-> r]
    ELSE LET p    == Head(ps)
             one  == IF p.id # sel
                     THEN [profs |-> p.profiles, r |-> r]
                     ELSE ImportProfilesLoop(p.profiles, profileId, pairs, now, r)
             rest == ImportLoop(Tail(ps), sel, profileId, pairs, now, one.r)
         IN  [ps |-> <<[p EXCEPT !.profiles = one.profs]>> \o rest.ps,
              r |-> rest.r]

\* The updater of handleImportVariables: [ps |-> new projects, r |-> draws].
handleImportVariables(prevProjects, sel, profileId, importedVars_, now, r) ==
    ImportLoop(prevProjects, sel, profileId, importedVars_, now, r)

\* prevProjects, the collection published before handleImportVariables, as
\* it reads once the updater has run.
prevProjectsAfterImport(prevProjects, sel, profileId, importedVars_, now, r) ==
    OnVariables(prevProjects, sel, profileId,
        LAMBDA variables : WrittenInPlace(variables, importedVars_, now, r))

----------------------------------------------------------------------------
(* Inputs of the operations.                                               *)

BogusProject == <<"proj", 0>>
BogusProfile == <<"prof", 0, "">>
BogusVar     == <<"var", 0, 0>>

ProjectArgs == {projects[i].id : i \in 1..Len(projects)} \cup {BogusProject}

ProfileIdsOf(p) == {p.profiles[j].id : j \in 1..Len(p.profiles)}

ProfileArgs ==
    UNION {ProfileIdsOf(projects[i]) : i \in 1..Len(projects)} \cup {BogusProfile}

\* The variable ids of the selected project, and one that names nothing.
VarArgs ==
    LET sp == selectedProject(projects, selectedProjectId)
    IN  (IF sp = Null THEN {}
         ELSE UNION {{sp.profiles[j].variables[k].id :
                         k \in 1..Len(sp.profiles[j].variables)} :
                     j \in 1..Len(sp.profiles)})
        \cup {BogusVar}

\* Partial updates VariableCard sends: a key, a value, the secret toggle.
UpdatedVars ==
    { [key |-> <<"A">>], [value |-> <<"x">>],
      [isSecret |-> TRUE, type |-> "GENERIC_SECRET"] }

\* A collection saved by an earlier session: one project made by addProject,
\* one variable made by addVariable and then edited.
SavedProjects ==
    << Project(<<"proj", 5>>, "Saved", <<"prof", 5, "dev">>,
           << Profile(<<"prof", 5, "dev">>, "development",
                  << [id |-> <<"var", 5, 0>>, key |-> <<"A">>, value |-> <<"x">>,
                      isSecret |-> FALSE, type |-> "TEXT"] >>) >>) >>

\* Files a session of the whole store imports.
StoreFiles ==
    { <<"A", "=", "y">>,
      <<"A", "=", "y", "\n", "A", "=", "x">>,
      <<"#", "c", "\n", "\n", "B", "=", "x", "\n", "C">> }

----------------------------------------------------------------------------
(* Rendering after a handler: the effects of App and the canvas instance.  *)

\* A handler left projects = ps and selectedProjectId = sel0.  The selection
\* effect heals sel0; the canvas is unmounted or replaced when its key
\* changes in the first render or in the healed one, which drops its state
\* (diff, iv) and the readers whose callbacks belong to it (rds).
Render(ps, sel0, diff, rds, iv) ==
    LET sel1    == Heal(ps, sel0)
        remount == \/ CanvasKey(ps, sel0) # CanvasKey(projects, selectedProjectId)
                   \/ CanvasKey(ps, sel1) # CanvasKey(ps, sel0)
    IN  /\ projects' = ps
        /\ selectedProjectId' = sel1
        /\ importDiff' = IF remount THEN Null ELSE diff
        /\ reads' = IF remount THEN {} ELSE rds
        /\ importedVars' = IF remount THEN <<>> ELSE iv

\* setProjects(updater) in a handler that touches nothing else.
SetProjects(ps) ==
    /\ Render(ps, selectedProjectId, importDiff, reads, importedVars)
    /\ storage' = Persist(ps)
    /\ lastImport' = Null
    /\ applied' = 0
    /\ UNCHANGED <<focusedVarId, quota, clock, rnd, crashed, download, mounted>>

----------------------------------------------------------------------------
(* Actions: one per handler, effect or environment step.                   *)

\* The first render's effects: the persistence write and the selection heal.
Mount ==
    /\ ~mounted
    /\ mounted' = TRUE
    /\ storage' = Persist(projects)
    /\ selectedProjectId' = Heal(projects, selectedProjectId)
    /\ UNCHANGED <<projects, focusedVarId, quota, clock, rnd, crashed, importDiff,
                   reads, importedVars, download, applied, lastImport>>

Live == mounted /\ ~crashed

\* Time passes: Date.now() returns a later value.
Tick ==
    /\ Live
    /\ clock < T0 + MaxTicks
    /\ clock' = clock + 1
    /\ UNCHANGED <<projects, selectedProjectId, focusedVarId, storage, quota, rnd,
                   crashed, importDiff, reads, importedVars, download, applied,
                   lastImport, mounted>>

\* onSelectProject={setSelectedProjectId}
SelectProject(projectId) ==
    /\ Live
    /\ Render(projects, projectId, importDiff, reads, importedVars)
    /\ UNCHANGED <<focusedVarId, storage, quota, clock, rnd, crashed, download,
                   applied, lastImport, mounted>>

ProfileChange(projectId, profileId) ==
    /\ Live
    /\ SetProjects(handleProfileChange(projects, projectId, profileId))

VariableChange(profileId, varId, updatedVar) ==
    /\ Live
    /\ SetProjects(handleVariableChange(projects, selectedProjectId, profileId,
                                        varId, updatedVar))

VarCountOk(ps) ==
    \A i \in 1..Len(ps) : \A j \in 1..Len(ps[i].profiles) :
        Len(ps[i].profiles[j].variables) <= MaxVars

AddVariable(profileId) ==
    LET ps == handleAddVariable(projects, selectedProjectId, profileId, clock)
    IN  /\ Live
        /\ VarCountOk(ps)
        /\ Render(ps, selectedProjectId, importDiff, reads, importedVars)
        /\ storage' = Persist(ps)
        /\ focusedVarId' = <<"var", clock, 0>>
        /\ lastImport' = Null
        /\ applied' = 0
        /\ UNCHANGED <<quota, clock, rnd, crashed, download, mounted>>

DeleteVariable(profileId, varId) ==
    /\ Live
    /\ SetProjects(handleDeleteVariable(projects, selectedProjectId, profileId, varId))

\* handleFocusComplete
FocusComplete ==
    /\ Live
    /\ focusedVarId # Null
    /\ focusedVarId' = Null
    /\ UNCHANGED <<projects, selectedProjectId, storage, quota, clock, rnd, crashed,
                   importDiff, reads, importedVars, download, applied, lastImport,
                   mounted>>

AddProject(projectName) ==
    LET ps == handleAddProject(projects, projectName, clock)
    IN  /\ Live
        /\ Len(projects) < MaxProjects
        /\ Render(ps, <<"proj", clock>>, importDiff, reads, importedVars)
        /\ storage' = Persist(ps)
        /\ lastImport' = Null
        /\ applied' = 0
        /\ UNCHANGED <<focusedVarId, quota, clock, rnd, crashed, download, mounted>>

RenameProject(projectId, newName) ==
    /\ Live
    /\ SetProjects(handleRenameProject(projects, projectId, newName))

DeleteProject(projectId) ==
    /\ Live
    /\ SetProjects(handleDeleteProject(projects, projectId))

ProfileCountOk(ps) == \A i \in 1..Len(ps) : Len(ps[i].profiles) <= MaxProfiles

AddProfile(projectId, newProfileName) ==
    LET res == handleAddProfile(projects, projectId, newProfileName, clock, rnd)
    IN  /\ Live
        /\ ProfileCountOk(res.ps)
        /\ res.r <= MaxDraws
        /\ Render(res.ps, selectedProjectId, importDiff, reads, importedVars)
        /\ storage' = Persist(res.ps)
        /\ rnd' = res.r
        /\ lastImport' = Null
        /\ applied' = 0
        /\ UNCHANGED <<focusedVarId, quota, clock, crashed, download, mounted>>

RenameProfile(projectId, profileId, newName) ==
    /\ Live
    /\ SetProjects(handleRenameProfile(projects, projectId, profileId, newName))

DeleteProfile(projectId, profileId) ==
    /\ Live
    /\ IF DeleteProfileThrows(projects, projectId, profileId)
       THEN /\ crashed' = TRUE
            /\ UNCHANGED <<projects, selectedProjectId, focusedVarId, storage, quota,
                           clock, rnd, importDiff, reads, importedVars, download,
                           applied, lastImport, mounted>>
       ELSE SetProjects(handleDeleteProfile(projects, projectId, profileId))

\* handleExport; the button is disabled while the profile has no variable.
Export ==
    LET profile == activeProfile(projects, selectedProjectId)
    IN  /\ Live
        /\ profile # Null
        /\ Len(profile.variables) > 0
        /\ download' = Serialize(profile.variables)
        /\ UNCHANGED <<projects, selectedProjectId, focusedVarId, storage, quota,
                       clock, rnd, crashed, importDiff, reads, importedVars, applied,
                       lastImport, mounted>>

\* handleFileChange: a FileReader starts reading; its onload closes over the
\* profile prop of this render.
FileChange(content) ==
    LET profile == activeProfile(projects, selectedProjectId)
    IN  /\ Live
        /\ profile # Null
        /\ Cardinality(reads) < MaxReads
        /\ reads' = reads \cup {[content |-> content, profile |-> profile]}
        /\ UNCHANGED <<projects, selectedProjectId, focusedVarId, storage, quota,
                       clock, rnd, crashed, importDiff, importedVars, download,
                       applied, lastImport, mounted>>

\* Mutant: a read completing while a diff is pending leaves that diff.
ReaderOnload_KeepFirst(read) ==
    /\ Live
    /\ read \in reads
    /\ reads' = reads \ {read}
    /\ importedVars' = IF importDiff = Null THEN Parse(read.content) ELSE importedVars
    /\ importDiff' = IF importDiff = Null
                     THEN Diff(read.profile.variables, Parse(read.content))
                     ELSE importDiff
    /\ UNCHANGED <<projects, selectedProjectId, focusedVarId, storage, quota, clock,
                   rnd, crashed, download, lastImport, applied, mounted>>

\* reader.onload: parse, diff against the captured profile, setImportDiff.
ReaderOnload(read) ==
    /\ Live
    /\ read \in reads
    /\ reads' = reads \ {read}
    /\ importedVars' = Parse(read.content)
    /\ importDiff' = Diff(read.profile.variables, Parse(read.content))
    /\ UNCHANGED <<projects, selectedProjectId, focusedVarId, storage, quota, clock,
                   rnd, crashed, download, applied, lastImport, mounted>>

\* handleImportVariables(profileId, pairs) followed by the render.
ImportThen(profileId, pairs, diff) ==
    LET res  == handleImportVariables(projects, selectedProjectId, profileId, pairs,
                                      clock, rnd)
        args == [profileId |-> profileId, pairs |-> pairs]
        runs == IF lastImport = args THEN applied + 1 ELSE 1
    IN  /\ runs <= MaxImports
        /\ VarCountOk(res.ps)
        /\ res.r <= MaxDraws
        /\ Render(res.ps, selectedProjectId, diff, reads,
                  IF diff = Null THEN <<>> ELSE importedVars)
        /\ storage' = Persist(res.ps)
        /\ rnd' = res.r
        /\ lastImport' = args
        /\ applied' = runs
        /\ UNCHANGED <<focusedVarId, quota, clock, crashed, download, mounted>>

\* confirmImport; the modal's button is disabled while both lists are empty.
ConfirmImport ==
    LET profile == activeProfile(projects, selectedProjectId)
    IN  /\ Live
        /\ importDiff # Null
        /\ Len(importDiff.newVars) + Len(importDiff.updatedVars) > 0
        /\ ImportThen(profile.id, AllVars(importDiff), Null)

\* The modal's onCancel: setImportDiff(null).
CancelImport ==
    /\ Live
    /\ importDiff # Null
    /\ importDiff' = Null
    /\ importedVars' = <<>>
    /\ UNCHANGED <<projects, selectedProjectId, focusedVarId, storage, quota, clock,
                   rnd, crashed, reads, download, applied, lastImport, mounted>>

\* The store operation importVariables(profileId, pairs) called directly.
ImportVariables(profileId, pairs) ==
    /\ Live
    /\ ImportThen(profileId, pairs, importDiff)

----------------------------------------------------------------------------
(* Specifications.                                                         *)

\* The state after construction: initialProjects loaded from storage, the
\* effects of the first render not yet run.
InitStore(savedData, quotaExceeded) ==
    /\ storage = savedData
    /\ quota = quotaExceeded
    /\ projects = initialProjects(savedData)
    /\ selectedProjectId = FirstId(initialProjects(savedData))
    /\ focusedVarId = Null
    /\ clock = T0
    /\ rnd = 0
    /\ crashed = FALSE
    /\ importDiff = Null
    /\ reads = {}
    /\ importedVars = <<>>
    /\ download = Null
    /\ applied = 0
    /\ lastImport = Null
    /\ mounted = FALSE
    /\ steps = 0

\* The whole store: every handler, with any id as argument, for at most
\* MaxSteps operations after startup.
Init ==
    \E savedData \in {Absent, Malformed, Stringify(<<>>), Stringify(SavedProjects)} :
        InitStore(savedData, FALSE)

Operation ==
    \/ Tick
    \/ \E projectId \in ProjectArgs : SelectProject(projectId)
    \/ \E projectId \in ProjectArgs, profileId \in ProfileArgs :
           ProfileChange(projectId, profileId)
    \/ \E profileId \in ProfileArgs, varId \in VarArgs, updatedVar \in UpdatedVars :
           VariableChange(profileId, varId, updatedVar)
    \/ \E profileId \in ProfileArgs : AddVariable(profileId)
    \/ \E profileId \in ProfileArgs, varId \in VarArgs :
           DeleteVariable(profileId, varId)
    \/ FocusComplete
    \/ AddProject("New Project")
    \/ \E projectId \in ProjectArgs : RenameProject(projectId, "Renamed")
    \/ \E projectId \in ProjectArgs : DeleteProject(projectId)
    \/ \E projectId \in ProjectArgs : AddProfile(projectId, "staging")
    \/ \E projectId \in ProjectArgs, profileId \in ProfileArgs :
           RenameProfile(projectId, profileId, "renamed")
    \/ \E projectId \in ProjectArgs, profileId \in ProfileArgs :
           DeleteProfile(projectId, profileId)
    \/ Export
    \/ \E content \in StoreFiles : FileChange(content)
    \/ \E read \in reads : ReaderOnload(read)
    \/ ConfirmImport
    \/ CancelImport

Next ==
    \/ Mount /\ UNCHANGED steps
    \/ steps < MaxSteps /\ steps' = steps + 1 /\ Operation

Spec == Init /\ [][Next]_vars

\* Profile additions and deletions only, on the seed or the saved collection.
InitProfiles ==
    \E savedData \in {Absent, Stringify(SavedProjects)} : InitStore(savedData, FALSE)

NextAddDelete ==
    \/ Mount /\ UNCHANGED steps
    \/ Tick /\ UNCHANGED steps
    \/ \E projectId \in ProjectArgs : AddProfile(projectId, "staging") /\ UNCHANGED steps
    \/ \E projectId \in ProjectArgs, profileId \in ProfileArgs :
           DeleteProfile(projectId, profileId) /\ UNCHANGED steps

SpecAddDelete == InitProfiles /\ [][NextAddDelete]_vars

\* The profile operations of the store, setActiveProfile included.
NextProfiles ==
    \/ NextAddDelete
    \/ \E projectId \in ProjectArgs, profileId \in ProfileArgs :
           ProfileChange(projectId, profileId) /\ UNCHANGED steps

SpecProfiles == InitStore(Stringify(SavedProjects), FALSE) /\ [][NextProfiles]_vars

\* Import into one profile whose contents are drawn from bounded sets.
ImportKeys   == {<<"A">>, <<"B">>}
ImportValues == {<<"x">>, <<"y">>}
ImportPairs  == [key : ImportKeys, value : ImportValues]
PairLists    == SeqsUpTo(ImportPairs, MaxList)

DrawnVar(i) ==
    { [id |-> <<"var", i, 0>>, key |-> k, value |-> v, isSecret |-> f.s, type |-> f.t] :
        k \in ImportKeys, v \in ImportValues,
        f \in {[s |-> FALSE, t |-> "TEXT"], [s |-> TRUE, t |-> "GENERIC_SECRET"]} }

RECURSIVE DrawnListsOfLen(_)
DrawnListsOfLen(n) ==
    IF n = 0 THEN {<<>>}
    ELSE {Append(vs, v) : vs \in DrawnListsOfLen(n - 1), v \in DrawnVar(n)}

DrawnVarLists == UNION {DrawnListsOfLen(n) : n \in 0..MaxList}

SavedWith(variables) ==
    << Project(<<"proj", 5>>, "Saved", <<"prof", 5, "dev">>,
           << Profile(<<"prof", 5, "dev">>, "development", variables) >>) >>

ImportFiles == {Serialize(pairs) : pairs \in PairLists}

InitImport ==
    \E variables \in DrawnVarLists : InitStore(Stringify(SavedWith(variables)), FALSE)

NextImport ==
    \/ Mount /\ UNCHANGED steps
    \/ /\ importDiff = Null
       /\ reads = {}
       /\ \E content \in ImportFiles : FileChange(content)
       /\ UNCHANGED steps
    \/ \E read \in reads : ReaderOnload(read) /\ UNCHANGED steps
    \/ ConfirmImport /\ UNCHANGED steps
    \/ CancelImport /\ UNCHANGED steps

SpecImport == InitImport /\ [][NextImport]_vars

\* Two files chosen in quick succession, their reads completing in either
\* order; steps counts the completed reads, confirmations and cancellations.
\* The modal covers the import button while a diff is pending; it is
\* confirmed once no read is in flight.
PendingFiles == {Serialize(pairs) : pairs \in SeqsUpTo(ImportPairs, 1)}

NextPending ==
    \/ Mount /\ UNCHANGED steps
    \/ /\ importDiff = Null
       /\ \E content \in PendingFiles : FileChange(content)
       /\ UNCHANGED steps
    \/ /\ steps < MaxSteps
       /\ \E read \in reads : ReaderOnload(read)
       /\ steps' = steps + 1
    \/ steps < MaxSteps /\ reads = {} /\ ConfirmImport /\ steps' = steps + 1
    \/ steps < MaxSteps /\ CancelImport /\ steps' = steps + 1

SpecPending == InitImport /\ [][NextPending]_vars

\* One file at a time, the variables of the displayed profile edited while
\* no modal covers the cards: before the file is chosen, while its read is
\* in flight, after the diff is confirmed or cancelled.  steps counts the
\* edits.
ValueEdits == { [value |-> <<"x">>], [value |-> <<"y">>] }

Edit ==
    \/ \E profileId \in ProfileArgs : AddVariable(profileId)
    \/ \E profileId \in ProfileArgs, varId \in VarArgs, updatedVar \in ValueEdits :
           VariableChange(profileId, varId, updatedVar)
    \/ \E profileId \in ProfileArgs, varId \in VarArgs : DeleteVariable(profileId, varId)

NextEditing ==
    \/ Mount /\ UNCHANGED steps
    \/ importDiff = Null /\ steps < MaxSteps /\ Edit /\ steps' = steps + 1
    \/ /\ importDiff = Null
       /\ reads = {}
       /\ \E content \in PendingFiles : FileChange(content)
       /\ UNCHANGED steps
    \/ \E read \in reads : ReaderOnload(read) /\ UNCHANGED steps
    \/ ConfirmImport /\ UNCHANGED steps
    \/ CancelImport /\ UNCHANGED steps

SpecEditing == InitStore(Stringify(SavedProjects), FALSE) /\ [][NextEditing]_vars

\* The store operation importVariables called with drawn pairs.
NextMerge ==
    \/ Mount /\ UNCHANGED steps
    \/ Tick /\ UNCHANGED steps
    \/ AddVariable(<<"prof", 5, "dev">>) /\ UNCHANGED steps
    \/ \E pairs \in PairLists :
           ImportVariables(<<"prof", 5, "dev">>, pairs) /\ UNCHANGED steps

SpecMerge == InitImport /\ [][NextMerge]_vars

\* The parser on every text of at most MaxTextLen characters.
TextAlphabet == {"A", "=", "#", " ", "\n"}
Texts == SeqsUpTo(TextAlphabet, MaxTextLen)

InitCodec == InitStore(Stringify(SavedProjects), FALSE)

NextCodec ==
    \/ Mount /\ UNCHANGED steps
    \/ /\ importDiff = Null
       /\ reads = {}
       /\ \E content \in Texts : FileChange(content)
       /\ UNCHANGED steps
    \/ \E read \in reads : ReaderOnload(read) /\ UNCHANGED steps
    \/ CancelImport /\ UNCHANGED steps

SpecCodec == InitCodec /\ [][NextCodec]_vars

\* Export of a drawn profile followed by the import of the exported file.
CodecKeys   == {<<"A">>, <<"b", "_", "1">>}
ValAlphabet == {" ", "=", "#", "x"}
CodecValues == SeqsUpTo(ValAlphabet, MaxValLen)

CodecVar(i) ==
    { [id |-> <<"var", i, 0>>, key |-> k, value |-> v, isSecret |-> FALSE,
       type |-> "TEXT"] : k \in CodecKeys, v \in CodecValues }

RECURSIVE CodecListsOfLen(_)
CodecListsOfLen(n) ==
    IF n = 0 THEN {<<>>}
    ELSE {Append(vs, v) : vs \in CodecListsOfLen(n - 1), v \in CodecVar(n)}

CodecVarLists == UNION {CodecListsOfLen(n) : n \in 0..MaxList}

InitRoundTrip ==
    \E variables \in CodecVarLists : InitStore(Stringify(SavedWith(variables)), FALSE)

NextRoundTrip ==
    \/ Mount /\ UNCHANGED steps
    \/ Export /\ UNCHANGED steps
    \/ download # Null /\ FileChange(download) /\ UNCHANGED steps
    \/ \E read \in reads : ReaderOnload(read) /\ UNCHANGED steps

SpecRoundTrip == InitRoundTrip /\ [][NextRoundTrip]_vars

\* Variable operations on the saved collection, with a localStorage whose
\* setItem succeeds or throws (quota exceeded) for the whole session.
InitPersist ==
    \E quotaExceeded \in BOOLEAN : InitStore(Stringify(SavedProjects), quotaExceeded)

NextPersist ==
    \/ Mount /\ UNCHANGED steps
    \/ Tick /\ UNCHANGED steps
    \/ \E profileId \in ProfileArgs : AddVariable(profileId) /\ UNCHANGED steps
    \/ \E profileId \in ProfileArgs, varId \in VarArgs, updatedVar \in UpdatedVars :
           VariableChange(profileId, varId, updatedVar) /\ UNCHANGED steps
    \/ \E profileId \in ProfileArgs, varId \in VarArgs :
           DeleteVariable(profileId, varId) /\ UNCHANGED steps

SpecPersist == InitPersist /\ [][NextPersist]_vars

----------------------------------------------------------------------------
(* Vocabulary of the properties.                                           *)

Keys(variables) == {variables[i].key : i \in 1..Len(variables)}
Ids(variables)  == {variables[i].id : i \in 1..Len(variables)}

\* The value a list of variables or pairs gives a key: that of the last
\* element carrying the key (the only one when the key occurs once).
LastValue(s, k) == s[Max({i \in 1..Len(s) : s[i].key = k})].value

\* The keys of a list in the order of their first occurrence.
KeysInOrder(s) ==
    SeqMap(LAMBDA p : p.key,
           SelectSeq([i \in 1..Len(s) |-> [key |-> s[i].key, at |-> i]],
                     LAMBDA e : \A j \in 1..(e.at - 1) : s[j].key # e.key))

PairsOf(variables) == SeqMap(LAMBDA v : [key |-> v.key, value |-> v.value], variables)

\* The variables of the profile profileId of the selected project.
VarsOf(ps, sel, profileId) ==
    LET sp   == selectedProject(ps, sel)
        prof == IF sp = Null THEN Null
                ELSE Find(sp.profiles, LAMBDA q : q.id = profileId)
    IN  IF prof = Null THEN <<>> ELSE prof.variables

\* A step in which handleImportVariables ran; its arguments are lastImport'.
ImportStep == lastImport' # Null /\ <<lastImport, applied>>' # <<lastImport, applied>>

\* A step in which the onload of read ran and set the pending diff.
OnloadStep(read) == read \in reads /\ read \notin reads' /\ importDiff' # Null

----------------------------------------------------------------------------
(* Properties.                                                             *)

\* C1: after any sequence of store operations, every project's
\* activeProfileId is the id of one of that project's profiles.
ActiveProfileAlwaysResolves ==
    \A i \in 1..Len(projects) :
        projects[i].activeProfileId \in ProfileIdsOf(projects[i])

\* C2: after each addProfile or deleteProfile, started where every
\* activeProfileId resolves, the activeProfileId of every project is still
\* the id of one of its profiles.
AddDeleteKeepsActive ==
    \A i \in 1..Len(projects) :
        \E j \in 1..Len(projects[i].profiles) :
            projects[i].profiles[j].id = projects[i].activeProfileId

\* C2 witness: the seed's first project lost its active profile prof-1-dev
\* to a delete, and prof-1-prod, the first remaining one, became active.
AddDeleteWitness ==
    \E i \in 1..Len(projects) :
        /\ projects[i].id = <<"proj", 1>>
        /\ <<"prof", 1, "dev">> \notin ProfileIdsOf(projects[i])
        /\ projects[i].activeProfileId = <<"prof", 1, "prod">>

\* C3: every project has at least one profile (deleting the only profile of
\* a project is refused, so no sequence of operations empties a project).
EveryProjectHasAProfile ==
    \A i \in 1..Len(projects) : Len(projects[i].profiles) >= 1

\* C4: importVariables never removes a variable: every id of the profile is
\* still there after the merge, and a variable whose key is not among the
\* pairs keeps all of its fields.
ImportNeverRemoves ==
    [][ImportStep =>
        LET before == VarsOf(projects, selectedProjectId, lastImport'.profileId)
            after  == VarsOf(projects', selectedProjectId', lastImport'.profileId)
        IN  /\ Ids(before) \subseteq Ids(after)
            /\ \A v \in Range(before) :
                   v.key \notin Keys(lastImport'.pairs) => v \in Range(after)
      ]_vars

\* C5: when the imported text carries a key on several lines, after parse,
\* diff, confirm and merge the profile's value for the key is that of the
\* last line carrying it.
LastLineWins ==
    [][(importDiff # Null /\ importDiff' = Null /\ ImportStep) =>
        LET after == VarsOf(projects', selectedProjectId', lastImport'.profileId)
        IN  \A k \in Keys(importedVars) :
                /\ k \in Keys(after)
                /\ \A w \in Range(after) :
                       w.key = k => w.value = LastValue(importedVars, k)
      ]_vars

\* C6: the merge changes only the value of a variable whose key is among the
\* pairs, keeping its id, isSecret, type and position, and appends after the
\* existing variables, in the order of the pairs, one variable per absent
\* key, with a fresh id, the imported key and value, isSecret = FALSE and
\* type = TEXT.
MergeUpdatesAndAppends ==
    [][ImportStep =>
        LET before  == VarsOf(projects, selectedProjectId, lastImport'.profileId)
            after   == VarsOf(projects', selectedProjectId', lastImport'.profileId)
            pairs   == lastImport'.pairs
            newKeys == SelectSeq(KeysInOrder(pairs), LAMBDA k : k \notin Keys(before))
        IN  /\ Len(after) = Len(before) + Len(newKeys)
            /\ \A i \in 1..Len(before) :
                   after[i] = IF before[i].key \in Keys(pairs)
                              THEN [before[i] EXCEPT
                                       !.value = LastValue(pairs, before[i].key)]
                              ELSE before[i]
            /\ \A j \in 1..Len(newKeys) :
                   LET w == after[Len(before) + j]
                   IN  /\ w.key = newKeys[j]
                       /\ w.value = LastValue(pairs, newKeys[j])
                       /\ w.isSecret = FALSE
                       /\ w.type = "TEXT"
                       /\ w.id \notin Ids(before)
                       /\ \A l \in 1..Len(newKeys) :
                              l # j => after[Len(before) + l].id # w.id
      ]_vars

\* C7: Diff(E, I) puts each imported pair in exactly one class, keeping the
\* input order inside each list: newVars holds the pairs whose key is no key
\* of E, updatedVars those whose key is in E with another value (oldValue
\* being the value E gives the key), no list those whose key is in E with
\* the same value; and computing the diff changes no store state.
DiffPartitions ==
    [][\A read \in reads : OnloadStep(read) =>
        LET E == read.profile.variables
            I == importedVars'
        IN  /\ importDiff'.newVars = SelectSeq(I, LAMBDA p : p.key \notin Keys(E))
            /\ importDiff'.updatedVars =
                   SeqMap(LAMBDA p : [key |-> p.key, value |-> p.value,
                                      oldValue |-> LastValue(E, p.key)],
                          SelectSeq(I, LAMBDA p : /\ p.key \in Keys(E)
                                                  /\ p.value # LastValue(E, p.key)))
            /\ UNCHANGED <<projects, selectedProjectId, storage>>
      ]_vars

\* C7 witness: a pending diff with one new and one updated pair.
DiffWitness ==
    /\ importDiff # Null
    /\ Len(importDiff.newVars) = 1
    /\ Len(importDiff.updatedVars) = 1

\* C8: applying the same merge a second time in succession yields the same
\* profile as applying it once (variables, keys, values, isSecret, type,
\* order and ids), whatever the clock reads at the second call.
MergeTwiceIsOnce ==
    [][(ImportStep /\ applied' = 2) => projects' = projects]_vars

\* C8 witness: a merge of two pairs ran twice in succession on a profile
\* that holds a variable created by an import.
MergeTwiceWitness ==
    /\ applied = 2
    /\ Len(lastImport.pairs) = 2
    /\ \E v \in Range(VarsOf(projects, selectedProjectId, lastImport.profileId)) :
           v.id[3] >= 1 /\ v.key \in Keys(lastImport.pairs)

\* C9 as stated: Parse(Serialize(V)) yields exactly the pairs
\* (v.key, v.value) of V in order, for values that may contain '=', '#' and
\* leading or trailing spaces.
RoundTripExact ==
    importDiff # Null =>
        importedVars = PairsOf(activeProfile(projects, selectedProjectId).variables)

NoPadding(s) == s = <<>> \/ (s[1] \notin WhiteSpace /\ s[Len(s)] \notin WhiteSpace)

\* C9 amended: Parse(Serialize(V)) yields, in order, the pairs (v.key,
\* v.value without its leading and trailing whitespace); they are exactly
\* the pairs (v.key, v.value) when no value starts or ends with whitespace.
RoundTripTrimmed ==
    importDiff # Null =>
        LET V == activeProfile(projects, selectedProjectId).variables
        IN  /\ importedVars =
                   SeqMap(LAMBDA v : [key |-> v.key, value |-> Trim(v.value)], V)
            /\ (\A i \in 1..Len(V) : NoPadding(V[i].value))
                   => importedVars = PairsOf(V)

\* C9 witness: an exported file of two variables was parsed back, one value
\* holding '=' and one holding '#', neither padded.
RoundTripWitness ==
    /\ importDiff # Null
    /\ Len(importedVars) = 2
    /\ \A i \in 1..2 :
           NoPadding(activeProfile(projects, selectedProjectId).variables[i].value)
    /\ "=" \in Range(importedVars[1].value)
    /\ "#" \in Range(importedVars[2].value)

HasEq(line) == "=" \in Range(line)

\* The text of a line before its first '=', trimmed.
KeyText(line) ==
    Trim(SubSeq(line, 1, Min({i \in 1..Len(line) : line[i] = "="}) - 1))

\* A line the parser is to skip: a non-empty, non-comment line without '=',
\* or a line whose key is empty.
ToSkip(line) ==
    \/ Trim(line) # <<>> /\ ~StartsWith(Trim(line), "#") /\ ~HasEq(line)
    \/ HasEq(line) /\ KeyText(line) = <<>>

\* C10: Parse emits no pair for a non-empty, non-comment line without '=' and
\* none for a line with an empty key: the pairs parsed from a file are those
\* parsed from the file without these lines.
SkipsLinesWithoutPair ==
    [][\A read \in reads : OnloadStep(read) =>
        importedVars' =
            Parse(Join(SelectSeq(Split(read.content, "\n"),
                                 LAMBDA line : ~ToSkip(line)), "\n"))
      ]_vars

\* The trimmed text of a line after its first '='.
ValueText(line) ==
    Trim(SubSeq(line, Min({i \in 1..Len(line) : line[i] = "="}) + 1, Len(line)))

IsBlank(line)   == Trim(line) = <<>>
IsComment(line) == Trim(line) # <<>> /\ Head(Trim(line)) = "#"

\* The lines the statement speaks of: those with '=', blank ones, comments.
Covered(line) == HasEq(line) \/ IsBlank(line) \/ IsComment(line)

EmitsPair(line) == HasEq(line) /\ ~IsBlank(line) /\ ~IsComment(line)

\* The pairs of the lines of content that satisfy E, in line order.
PairsWhere(content, E(_)) ==
    LET lines == Split(content, "\n")
    IN  Flatten([i \in 1..Len(lines) |->
                    IF E(lines[i])
                    THEN <<[key |-> KeyText(lines[i]), value |-> ValueText(lines[i])]>>
                    ELSE <<>>])

AllCovered(content) ==
    \A i \in 1..Len(Split(content, "\n")) : Covered(Split(content, "\n")[i])

\* C11 as stated: on a file of blank lines, comment lines and lines with '=',
\* Parse emits, in line order, one pair per line with '=' whose trimmed text
\* is non-empty and does not start with '#' (key: the trimmed text before the
\* first '='; value: the trimmed text after it, later '=' kept), nothing for
\* the other lines, and raises no error.
ParseEmitsPerLine ==
    [][\A read \in reads : (OnloadStep(read) /\ AllCovered(read.content)) =>
        /\ importedVars' = PairsWhere(read.content, EmitsPair)
        /\ crashed' = FALSE
      ]_vars

EmitsKeyedPair(line) == EmitsPair(line) /\ KeyText(line) # <<>>

\* C11 amended: as above, the lines that emit a pair being those with '='
\* whose trimmed text is non-empty, does not start with '#' and has a
\* non-empty key before the first '='.
ParseEmitsPerKeyedLine ==
    [][\A read \in reads : (OnloadStep(read) /\ AllCovered(read.content)) =>
        /\ importedVars' = PairsWhere(read.content, EmitsKeyedPair)
        /\ crashed' = FALSE
      ]_vars

\* C11 witness: a file was parsed into one pair whose value holds '='.
ParseWitness ==
    /\ importDiff # Null
    /\ Len(importedVars) = 1
    /\ "=" \in Range(importedVars[1].value)

\* The positions <<i, j, k>> of the variables of a collection of projects.
VarPositions(ps) ==
    {pos \in (1..Len(ps)) \X (1..MaxProfiles + 1) \X (1..MaxVars + 1) :
        /\ pos[2] <= Len(ps[pos[1]].profiles)
        /\ pos[3] <= Len(ps[pos[1]].profiles[pos[2]].variables)}

VarAt(ps, pos) == ps[pos[1]].profiles[pos[2]].variables[pos[3]]

\* ps and qs have the same projects and profiles, position by position, up to
\* the fields of their variables.
SameShape(ps, qs) ==
    /\ Len(qs) = Len(ps)
    /\ \A i \in 1..Len(ps) :
           /\ [qs[i] EXCEPT !.profiles = <<>>] = [ps[i] EXCEPT !.profiles = <<>>]
           /\ Len(qs[i].profiles) = Len(ps[i].profiles)
           /\ \A j \in 1..Len(ps[i].profiles) :
                  /\ [qs[i].profiles[j] EXCEPT !.variables = <<>>] =
                         [ps[i].profiles[j] EXCEPT !.variables = <<>>]
                  /\ Len(qs[i].profiles[j].variables) =
                         Len(ps[i].profiles[j].variables)

\* w is v with the fields of updatedVar set and every other field kept.
Updated(v, w, updatedVar) ==
    /\ DOMAIN w = DOMAIN v
    /\ \A f \in DOMAIN v :
           w[f] = IF f \in DOMAIN updatedVar THEN updatedVar[f] ELSE v[f]

\* The effect the statement gives updateVariable(profileId, varId, updatedVar).
UpdateFrame(profileId, varId, updatedVar) ==
    /\ SameShape(projects, projects')
    /\ \A pos \in VarPositions(projects) :
           LET v == VarAt(projects, pos)
               w == VarAt(projects', pos)
           IN  /\ w.id = v.id
               /\ w # v =>
                      /\ projects[pos[1]].id = selectedProjectId
                      /\ projects[pos[1]].profiles[pos[2]].id = profileId
                      /\ v.id = varId
                      /\ Updated(v, w, updatedVar)
    /\ Cardinality({pos \in VarPositions(projects) :
                        VarAt(projects', pos) # VarAt(projects, pos)}) <= 1

\* C12: updateVariable(profileId, variableId, partialFields) keeps the id of
\* the addressed variable and changes only the fields given; every other
\* variable of the profile, every other profile and every other project are
\* unchanged, and the variable keeps its position.
UpdateChangesOneVariable ==
    [][projects' # projects =>
        \A profileId \in ProfileArgs, varId \in VarArgs, updatedVar \in UpdatedVars :
            VariableChange(profileId, varId, updatedVar) =>
                UpdateFrame(profileId, varId, updatedVar)
      ]_vars

\* The profile ids and variable ids of the selected project (none while no
\* project is selected), and the profile ids of the projects named projectId.
KnownProfiles ==
    LET sp == selectedProject(projects, selectedProjectId)
    IN  IF sp = Null THEN {} ELSE ProfileIdsOf(sp)

KnownVars == VarArgs \ {BogusVar}

ProfilesOfProject(projectId) ==
    UNION {ProfileIdsOf(projects[i]) : i \in {l \in 1..Len(projects) :
                                                  projects[l].id = projectId}}

\* The step A neither changes the projects collection nor raises an error.
NoOp(A) == A => (projects' = projects /\ crashed' = FALSE)

\* C13: updateVariable, deleteVariable, addVariable and importVariables with
\* a profile id or variable id that the selected project does not have, and
\* renameProject, deleteProject, renameProfile and deleteProfile with an
\* unknown project id or profile id, raise no error and leave the contents
\* of the projects collection unchanged.
UnknownIdsAreNoOps ==
    [][(projects' # projects \/ crashed' # crashed) =>
        /\ \A profileId \in ProfileArgs, varId \in VarArgs :
               (profileId \notin KnownProfiles \/ varId \notin KnownVars) =>
                   /\ \A updatedVar \in UpdatedVars :
                          NoOp(VariableChange(profileId, varId, updatedVar))
                   /\ NoOp(DeleteVariable(profileId, varId))
        /\ \A profileId \in ProfileArgs \ KnownProfiles :
               /\ NoOp(AddVariable(profileId))
               /\ \A pairs \in PairLists : NoOp(ImportVariables(profileId, pairs))
        /\ NoOp(RenameProject(BogusProject, "Renamed"))
        /\ NoOp(DeleteProject(BogusProject))
        /\ \A projectId \in ProjectArgs :
               \A profileId \in ProfileArgs \ ProfilesOfProject(projectId) :
                   /\ NoOp(RenameProfile(projectId, profileId, "renamed"))
                   /\ NoOp(DeleteProfile(projectId, profileId))
      ]_vars

\* C14: selectProject with an id that names no project of the store is a
\* no-op: once it has completed, selectedProjectId is what it was before.
SelectUnknownIsNoOp ==
    [][\A projectId \in ProjectArgs \ {projects[i].id : i \in 1..Len(projects)} :
           SelectProject(projectId) => selectedProjectId' = selectedProjectId
      ]_vars

\* The effect the statement gives addProfile(projectId, name) on the project
\* at position i, whose active profile is src.
CloneEffect(i, name) ==
    LET p   == projects[i]
        q   == projects'[i]
        src == Find(p.profiles, LAMBDA prof : prof.id = p.activeProfileId)
        new == q.profiles[Len(q.profiles)]
    IN  /\ Len(q.profiles) = Len(p.profiles) + 1
        /\ SubSeq(q.profiles, 1, Len(p.profiles)) = p.profiles
        /\ new.name = name
        /\ Len(new.variables) = Len(src.variables)
        /\ \A k \in 1..Len(src.variables) :
               /\ [new.variables[k] EXCEPT !.id = src.variables[k].id] = src.variables[k]
               /\ new.variables[k].id \notin Ids(src.variables)
               /\ \A l \in 1..Len(src.variables) :
                      new.variables[l].id = new.variables[k].id => l = k
        /\ q.activeProfileId = new.id
        /\ q.id = p.id /\ q.name = p.name

\* C15: addProfile(projectId, name) on a project whose active profile has the
\* variables v1..vn appends one profile with that name and n variables of the
\* same key, value, isSecret and type in the same order, with ids that differ
\* from every id of the source profile and from each other; the new profile
\* becomes the activeProfileId in the same step; the source profile and all
\* other profiles are unchanged.
AddProfileClones ==
    [][\A projectId \in ProjectArgs :
           AddProfile(projectId, "staging") =>
               /\ Len(projects') = Len(projects)
               /\ \A i \in 1..Len(projects) :
                      IF projects[i].id = projectId
                      THEN projects[i].activeProfileId \in ProfileIdsOf(projects[i])
                               => CloneEffect(i, "staging")
                      ELSE projects'[i] = projects[i]
      ]_vars

\* C15 witness: the last profile of a project is a clone of two variables
\* made by addProfile, and it is the active one.
AddProfileWitness ==
    \E i \in 1..Len(projects) :
        LET new == projects[i].profiles[Len(projects[i].profiles)]
        IN  /\ Len(projects[i].profiles) >= 2
            /\ new.id[3] = ""
            /\ new.name = "staging"
            /\ Len(new.variables) >= 2
            /\ projects[i].activeProfileId = new.id

\* C16: no store operation modifies a previously published snapshot: the
\* projects, profiles and variables reachable from the collection held before
\* an importVariables that overwrites the value of an existing key have the
\* same field values after it as before.
ImportKeepsSnapshot ==
    [][projects' # projects =>
        \A profileId \in ProfileArgs, pairs \in PairLists :
            ImportVariables(profileId, pairs) =>
                prevProjectsAfterImport(projects, selectedProjectId, profileId,
                                        pairs, clock, rnd) = projects
      ]_vars

\* C17: once an operation has run to completion on a non-empty collection,
\* selectedProjectId is the id of a project of the store; after deleteProject
\* of the selected project it is the id of the first remaining project, or
\* none when no project remains; deleting another project leaves it unchanged.
SelectionFollowsProjects ==
    [][/\ Len(projects') > 0 =>
              \E i \in 1..Len(projects') : projects'[i].id = selectedProjectId'
       /\ \A projectId \in ProjectArgs :
              DeleteProject(projectId) =>
                  selectedProjectId' =
                      IF projectId # selectedProjectId THEN selectedProjectId
                      ELSE IF projects' = <<>> THEN Null
                      ELSE projects'[1].id
      ]_vars

\* C17 witness: the seed's first project, which was selected, has been
\* deleted, and the selection is on the remaining project.
SelectionWitness ==
    /\ Len(projects) = 1
    /\ projects[1].id = <<"proj", 2>>
    /\ selectedProjectId = <<"proj", 2>>

\* C18: no two variables of one profile have the same id, also when several
\* variables are created at the same clock reading.
VariableIdsUnique ==
    \A i \in 1..Len(projects) : \A j \in 1..Len(projects[i].profiles) :
        LET variables == projects[i].profiles[j].variables
        IN  \A k, l \in 1..Len(variables) : variables[k].id = variables[l].id => k = l

\* The effect the statement gives deleteProfile(projectId, profileId) on the
\* project at position i, which has the profile and more than one profile.
DeleteEffect(i, profileId) ==
    LET p == projects[i]
        q == projects'[i]
    IN  /\ \E k \in 1..Len(p.profiles) :
               /\ p.profiles[k].id = profileId
               /\ q.profiles = SubSeq(p.profiles, 1, k - 1) \o
                               SubSeq(p.profiles, k + 1, Len(p.profiles))
        /\ q.activeProfileId = IF p.activeProfileId = profileId
                               THEN q.profiles[1].id
                               ELSE p.activeProfileId
        /\ q.id = p.id /\ q.name = p.name

\* C19: deleteProfile(projectId, profileId) of an existing profile in a
\* project with more than one profile removes exactly that profile and keeps
\* the others in order; activeProfileId becomes the id of the first remaining
\* profile if the removed profile was the active one and is unchanged
\* otherwise; all other projects are unchanged.
DeleteProfileRemovesOne ==
    [][\A projectId \in ProjectArgs, profileId \in ProfileArgs :
           DeleteProfile(projectId, profileId) =>
               /\ Len(projects') = Len(projects)
               /\ \A i \in 1..Len(projects) :
                      IF projects[i].id # projectId
                      THEN projects'[i] = projects[i]
                      ELSE (/\ profileId \in ProfileIdsOf(projects[i])
                            /\ Len(projects[i].profiles) > 1)
                               => DeleteEffect(i, profileId)
      ]_vars

\* C20: at startup the projects are the persisted value when it is present
\* and deserializes to a non-empty collection, and the seed dataset of two
\* projects when it is absent, fails to deserialize or is empty; loading does
\* not raise, and selectedProjectId starts as the id of the first project.
StartupLoadsOrSeeds ==
    ~mounted =>
        /\ projects = IF storage = Absent \/ storage = Malformed THEN INITIAL_PROJECTS
                      ELSE IF storage.val = <<>> THEN INITIAL_PROJECTS
                      ELSE storage.val
        /\ Len(INITIAL_PROJECTS) = 2
        /\ selectedProjectId = projects[1].id
        /\ crashed = FALSE

\* C20 witness: the session started on a collection saved by an earlier one.
StartupWitness ==
    /\ ~mounted
    /\ storage = Stringify(SavedProjects)
    /\ projects = SavedProjects
    /\ selectedProjectId = <<"proj", 5>>

\* C21: every mutation of projects attempts a write of the whole serialized
\* collection: when the write succeeds the persisted item is the
\* serialization of the in-memory projects; when it fails nothing is raised,
\* the item stays as it was, the in-memory projects keep the mutated value
\* and later operations go on applying to them.
MutationsArePersisted ==
    [][projects' # projects =>
        /\ crashed' = FALSE
        /\ storage' = IF quota THEN storage ELSE Stringify(projects')
      ]_vars

\* C21 witness: every write of the session failed, the item still holds the
\* collection of the earlier session, and the in-memory profile went on from
\* one variable to three, the first of them edited.
PersistFailureWitness ==
    /\ quota
    /\ mounted
    /\ storage = Stringify(SavedProjects)
    /\ Len(projects[1].profiles[1].variables) = 3
    /\ projects[1].profiles[1].variables[1].isSecret

\* C22: the pending import diff is one value, absent or a single diff; a
\* read that completes sets it to the diff of that read, whatever was
\* pending; confirming hands the pending diff's new and updated pairs, in
\* that order, to one import into the displayed profile and clears the
\* pending diff; cancelling clears it and leaves projects alone.
OnePendingDiff ==
    [][/\ importDiff' = Null \/ DOMAIN importDiff' = {"newVars", "updatedVars"}
       /\ \A read \in reads :
              OnloadStep(read) =>
                  importDiff' = Diff(read.profile.variables, Parse(read.content))
       /\ ConfirmImport =>
              LET displayed == activeProfile(projects, selectedProjectId)
                  pairs == PairsOf(importDiff.newVars) \o PairsOf(importDiff.updatedVars)
              IN  /\ ImportStep
                  /\ lastImport' = [profileId |-> displayed.id, pairs |-> pairs]
                  /\ projects' = handleImportVariables(projects, selectedProjectId,
                                     displayed.id, pairs, clock, rnd).ps
                  /\ importDiff' = Null
       /\ CancelImport => importDiff' = Null /\ projects' = projects
      ]_vars

\* Two reads completed in a row and the diff of the second is pending, then
\* confirmed: the profile holds the second file's pair and not the first's.
SecondDiffWitness ==
    /\ mounted /\ Len(projects) = 1
    /\ steps = 3 /\ importDiff = Null /\ reads = {}
    /\ lastImport # Null
    /\ lastImport.pairs = << [key |-> <<"B">>, value |-> <<"y">>] >>
    /\ PairsOf(projects[1].profiles[1].variables) =
           << [key |-> <<"A">>, value |-> <<"x">>], [key |-> <<"B">>, value |-> <<"y">>] >>

\* C23: whenever an import diff is pending, it is the diff of the variables
\* the displayed profile has now against the pairs read from the file.
PendingDiffIsCurrent ==
    importDiff # Null =>
        LET displayed == activeProfile(projects, selectedProjectId)
        IN  /\ displayed # Null
            /\ importDiff = Diff(displayed.variables, importedVars)

=============================================================================
